---- MODULE Spec2Model ----
(***************************************************************************)
(* Model of FantasyDraftTool (src/fantasy_draft_tool.py): the name         *)
(* normalizer, the tiered matcher (match_players), the drafted-status      *)
(* reconciler (apply_drafted_status) and the operations that feed them.    *)
(*                                                                         *)
(* Text is modelled as a sequence of characters, each character a string.  *)
(* A few characters carry symbolic names: "e_acute" / "E_acute" for the    *)
(* precomposed letters U+00E9 / U+00C9, "comb_acute" for the combining     *)
(* mark U+0301 and "TAB" for U+0009.  The empty sequence stands for every  *)
(* falsy text value of the program (None, "" and a missing dict key): the  *)
(* code treats the three alike at every place modelled here.               *)
(***************************************************************************)
EXTENDS Integers, Sequences, FiniteSets, TLC

(***************************************************************************)
(* Bounds of the model.                                                    *)
(***************************************************************************)
MaxPlayers == 2

None == "None"
NoText == <<>>

\* A JSON null held by a registry record: dict.get returns None for it
Null == <<"null">>

\* Python's truth value of a text or None
Truthy(v) == v # NoText /\ v # Null

\* Variant of OrEmpty: the value is used as it is
OrEmpty_identity(v) == v

\* (v or "")
OrEmpty(v) == IF Truthy(v) THEN v ELSE NoText

(***************************************************************************)
(* Characters.                                                             *)
(***************************************************************************)
Lower26 == <<"a","b","c","d","e","f","g","h","i","j","k","l","m",
             "n","o","p","q","r","s","t","u","v","w","x","y","z">>
Upper26 == <<"A","B","C","D","E","F","G","H","I","J","K","L","M",
             "N","O","P","Q","R","S","T","U","V","W","X","Y","Z">>
Digits10 == <<"0","1","2","3","4","5","6","7","8","9">>

SeqToSet(s) == {s[i] : i \in 1..Len(s)}

IndexOf(s, c) == CHOOSE i \in 1..Len(s) : s[i] = c

LowerLetters == SeqToSet(Lower26)
UpperLetters == SeqToSet(Upper26)
DigitChars == SeqToSet(Digits10)

IsLowerLetter(c) == c \in LowerLetters
IsUpperLetter(c) == c \in UpperLetters
IsDigit(c) == c \in DigitChars
\* \s of the re module
IsSpace(c) == c \in {" ", "TAB"}
\* unicodedata.combining(c) # 0
IsCombining(c) == c = "comb_acute"

\* str.lower(), one character
LowerChar(c) ==
    IF IsUpperLetter(c) THEN Lower26[IndexOf(Upper26, c)]
    ELSE IF c = "E_acute" THEN "e_acute"
    ELSE c

\* str.upper(), one character
UpperChar(c) ==
    IF IsLowerLetter(c) THEN Upper26[IndexOf(Lower26, c)]
    ELSE IF c = "e_acute" THEN "E_acute"
    ELSE c

\* unicodedata.normalize("NFKD", c), one character
Decompose(c) ==
    IF c = "e_acute" THEN <<"e", "comb_acute">>
    ELSE IF c = "E_acute" THEN <<"E", "comb_acute">>
    ELSE <<c>>

LowerStr(s) == [i \in 1..Len(s) |-> LowerChar(s[i])]
UpperStr(s) == [i \in 1..Len(s) |-> UpperChar(s[i])]

RECURSIVE NFKD(_)
NFKD(s) == IF s = <<>> THEN <<>> ELSE Decompose(Head(s)) \o NFKD(Tail(s))

RECURSIVE DropCombining(_)
DropCombining(s) ==
    IF s = <<>> THEN <<>>
    ELSE IF IsCombining(Head(s)) THEN DropCombining(Tail(s))
    ELSE <<Head(s)>> \o DropCombining(Tail(s))

\* re.sub(r"[^a-z0-9\s]", " ", s)
KeptChars == LowerLetters \cup DigitChars \cup {" ", "TAB"}

PunctToSpace(s) == [i \in 1..Len(s) |-> IF s[i] \in KeptChars THEN s[i] ELSE " "]

Suffixes == { <<"j","r">>, <<"s","r">>, <<"i","i">>, <<"i","i","i">>,
              <<"i","v">>, <<"v">> }

\* A maximal run of word characters that is one of the suffixes becomes " ".
FlushWord(word) == IF word \in Suffixes THEN <<" ">> ELSE word

\* re.sub(r"\b(jr|sr|ii|iii|iv|v)\b", " ", s) on a string of [a-z0-9] and
\* whitespace: \b falls exactly at the ends of the maximal word runs.
RECURSIVE SubSuffix(_, _, _)
SubSuffix(s, word, out) ==
    IF s = <<>> THEN out \o FlushWord(word)
    ELSE IF IsSpace(Head(s))
         THEN SubSuffix(Tail(s), <<>>, out \o FlushWord(word) \o <<Head(s)>>)
         ELSE SubSuffix(Tail(s), Append(word, Head(s)), out)

\* Variant of RemoveSuffixes: the suffix tokens are left in place
RemoveSuffixes_omitted(s) == s

RemoveSuffixes(s) == SubSuffix(s, <<>>, <<>>)

\* re.sub(r"\s+", " ", s)
RECURSIVE CollapseSpaces(_, _)
CollapseSpaces(s, inSpace) ==
    IF s = <<>> THEN <<>>
    ELSE IF IsSpace(Head(s))
         THEN (IF inSpace THEN <<>> ELSE <<" ">>) \o CollapseSpaces(Tail(s), TRUE)
         ELSE <<Head(s)>> \o CollapseSpaces(Tail(s), FALSE)

\* str.strip()
RECURSIVE LStrip(_)
LStrip(s) == IF s # <<>> /\ IsSpace(Head(s)) THEN LStrip(Tail(s)) ELSE s

RECURSIVE RStrip(_)
RStrip(s) ==
    IF s # <<>> /\ IsSpace(s[Len(s)]) THEN RStrip(SubSeq(s, 1, Len(s) - 1)) ELSE s

Strip(s) == RStrip(LStrip(s))

_normalize_name(name) ==
    IF ~Truthy(name) THEN NoText
    ELSE LET name_low == DropCombining(NFKD(LowerStr(name)))
             cleaned == PunctToSpace(name_low)
         IN Strip(CollapseSpaces(RemoveSuffixes(cleaned), FALSE))

(***************************************************************************)
(* fuzzywuzzy: fuzz.token_sort_ratio and process.extractOne, as called by  *)
(* match_players.  The strings handed to them are outputs of               *)
(* _normalize_name, on which the library's own pre-processing              *)
(* (utils.full_process: non-alphanumerics to space, lower, strip) changes  *)
(* nothing.  The ratio is the one of the Levenshtein backend,              *)
(* 2 * LCS / (len(a) + len(b)).                                            *)
(***************************************************************************)
\* str.split(): the maximal runs of non-whitespace characters
RECURSIVE SplitWords(_, _)
SplitWords(s, word) ==
    IF s = <<>> THEN (IF word = <<>> THEN <<>> ELSE <<word>>)
    ELSE IF IsSpace(Head(s))
         THEN (IF word = <<>> THEN <<>> ELSE <<word>>) \o SplitWords(Tail(s), <<>>)
         ELSE SplitWords(Tail(s), Append(word, Head(s)))

CharOrder == <<" ">> \o Digits10 \o Lower26
CharRank(c) == IndexOf(CharOrder, c)

\* t1 < t2 for Python strings
RECURSIVE StrLess(_, _)
StrLess(t1, t2) ==
    IF t2 = <<>> THEN FALSE
    ELSE IF t1 = <<>> THEN TRUE
    ELSE IF Head(t1) = Head(t2) THEN StrLess(Tail(t1), Tail(t2))
    ELSE CharRank(Head(t1)) < CharRank(Head(t2))

RECURSIVE InsertSorted(_, _)
InsertSorted(t, ts) ==
    IF ts = <<>> THEN <<t>>
    ELSE IF StrLess(t, Head(ts)) THEN <<t>> \o ts
    ELSE <<Head(ts)>> \o InsertSorted(t, Tail(ts))

RECURSIVE SortTokens(_)
SortTokens(ts) == IF ts = <<>> THEN <<>> ELSE InsertSorted(Head(ts), SortTokens(Tail(ts)))

RECURSIVE JoinSpace(_)
JoinSpace(ts) ==
    IF ts = <<>> THEN <<>>
    ELSE IF Len(ts) = 1 THEN Head(ts)
    ELSE Head(ts) \o <<" ">> \o JoinSpace(Tail(ts))

\* fuzz._process_and_sort(s, force_ascii, full_process=False)
_process_and_sort(s) == Strip(JoinSpace(SortTokens(SplitWords(s, <<>>))))

Max2(x, y) == IF x >= y THEN x ELSE y

\* One row of the longest-common-subsequence table: cur[j + 1] is the LCS
\* length of the prefix of a ending in ai and b[1..j].
RECURSIVE LcsRow(_, _, _, _)
LcsRow(prev, ai, b, cur) ==
    IF Len(cur) = Len(b) + 1 THEN cur
    ELSE LET j == Len(cur)
         IN LcsRow(prev, ai, b,
                   Append(cur, IF ai = b[j] THEN prev[j] + 1
                               ELSE Max2(prev[j + 1], cur[j])))

RECURSIVE LcsRows(_, _, _)
LcsRows(a, b, prev) ==
    IF a = <<>> THEN prev[Len(b) + 1]
    ELSE LcsRows(Tail(a), b, LcsRow(prev, Head(a), b, <<0>>))

LCS(a, b) == LcsRows(a, b, [j \in 1..(Len(b) + 1) |-> 0])

\* utils.intr(100 * ratio) = int(round(.)): round half to even
RoundHalfEven(num, den) ==
    LET q == num \div den
        r == num % den
    IN IF 2 * r > den THEN q + 1
       ELSE IF 2 * r < den THEN q
       ELSE IF q % 2 = 0 THEN q ELSE q + 1

\* fuzz.ratio with its decorators check_for_equivalence and check_empty_string
ratio(s1, s2) ==
    IF s1 = s2 THEN 100
    ELSE IF s1 = <<>> \/ s2 = <<>> THEN 0
    ELSE RoundHalfEven(200 * LCS(s1, s2), Len(s1) + Len(s2))

token_sort_ratio(s1, s2) == ratio(_process_and_sort(s1), _process_and_sort(s2))

\* max(best_list, key=score): the first choice, in the order of the choices,
\* that carries the highest score.
RECURSIVE BestOf(_, _, _)
BestOf(query, choices, best) ==
    IF choices = <<>> THEN best
    ELSE LET sc == token_sort_ratio(query, Head(choices))
         IN BestOf(query, Tail(choices),
                   IF best = <<>> \/ sc > best[2] THEN <<Head(choices), sc>> ELSE best)

\* process.extractOne(query, choices, scorer=fuzz.token_sort_ratio): the empty
\* tuple (None) for no choices, otherwise <<choice, score>> (score_cutoff is 0).
extractOne(query, choices) == BestOf(query, choices, <<>>)

(***************************************************************************)
(* Data of the model.  The object lives in one of a few environments: an   *)
(* environment fixes which rows the rankings CSV may hold, which snapshots *)
(* the registry endpoint may serve and which pick lists the draft endpoint *)
(* may serve.                                                              *)
(***************************************************************************)
WR == <<"W","R">>
QB == <<"Q","B">>
KC == <<"K","C">>
BUF == <<"B","U","F">>
FA == <<"F","A">>

TyJones == <<"T","y"," ","J","o","n","e","s">>
TyJonesCaps == <<"T","Y"," ","J","O","N","E","S">>
TyJonas == <<"T","y"," ","J","o","n","a","s">>
GabeDavis == <<"G","a","b","e"," ","D","a","v","i","s">>
GabrielDavis == <<"G","a","b","r","i","e","l"," ","D","a","v","i","s">>
MarqBrown == <<"M","a","r","q"," ","B","r","o","w","n">>
HollyBrown == <<"H","o","l","l","y"," ","B","r","o","w","n">>
DeonBrown == <<"D","e","o","n"," ","B","r","o","w","n">>
Brown == <<"B","r","o","w","n">>

\* Rows of the rankings CSV: the columns PLAYER NAME, TEAM, POS, RK, TIERS.
\* A column the CSV header does not have: row[...] raises KeyError
Missing == <<"missing">>

\* One row of csv.DictReader: a text per column, Null (None) for a column the
\* row is too short to reach, Missing for a column the header lacks
CsvRow(name, team, pos, rk, tiers) ==
    [name |-> name, team |-> team, POS |-> pos, RK |-> rk, TIERS |-> tiers,
     SOS |-> <<"3">>]

RowTy == CsvRow(TyJones, KC, <<"W","R","1">>, <<"1">>, <<"1">>)
RowGabe == CsvRow(<<" ">> \o GabeDavis, BUF, <<"W","R","2">>, <<"2">>, <<"1">>)
RowBadPos == CsvRow(TyJonas, KC, <<"1","W","R">>, <<"3">>, <<"2">>)
RowBadRk == CsvRow(GabrielDavis, BUF, <<"W","R","4">>, <<"x">>, <<"2">>)
RowBadTiers == CsvRow(TyJonas, KC, <<"W","R","3">>, <<"3">>, NoText)
RowNoRk == CsvRow(TyJonas, KC, <<"W","R","3">>, Missing, <<"2">>)
RowShort == CsvRow(TyJonas, KC, Null, <<"3">>, <<"2">>)
RowShortSos == [CsvRow(TyJonas, KC, <<"W","R","3">>, <<"3">>, <<"2">>) EXCEPT !.SOS = Null]
RowMarq == CsvRow(MarqBrown, KC, <<"W","R","3">>, <<"5">>, <<"2">>)
RowMarqFA == CsvRow(MarqBrown, FA, <<"W","R","6">>, <<"6">>, <<"3">>)

\* Records of the Sleeper registry (the values of the players/nfl JSON
\* object, together with their key).
SleeperRec(id, full, first, last, team, pos) ==
    [id |-> id, full_name |-> full, search_full_name |-> NoText,
     first_name |-> first, last_name |-> last, team |-> team, position |-> pos]

S1 == SleeperRec("1", TyJones, <<"T","y">>, <<"J","o","n","e","s">>, KC, WR)
S2 == SleeperRec("2", TyJonesCaps, NoText, NoText, KC, QB)
S3 == SleeperRec("3", TyJonas, NoText, <<"J","o","n","a","s">>, KC, WR)
S4 == SleeperRec("4", GabrielDavis, <<"G","a","b","r","i","e","l">>,
                 <<"D","a","v","i","s">>, BUF, <<"w","r">>)
S5 == SleeperRec("5", GabeDavis, NoText, NoText, NoText, NoText)
S6 == [SleeperRec("6", HollyBrown, <<"H","o","l","l","y">>, Brown, <<"k","c">>, WR)
          EXCEPT !.search_full_name = <<"h","o","l","l","y","b","r","o","w","n">>]
S7 == SleeperRec("7", DeonBrown, NoText, Brown, KC, WR)
S8 == SleeperRec("8", NoText, NoText, Brown, FA, WR)
S9 == SleeperRec("9", TyJones, NoText, NoText, KC, WR)
S12 == SleeperRec("12", TyJonas, NoText, <<"J","o","n","a","s">>, KC, QB)
S10 == [SleeperRec("10", Null, Null, <<"D","a","v","i","s">>, Null, Null)
           EXCEPT !.search_full_name = Null]
S11 == SleeperRec("11", GabeDavis, NoText, Null, NoText, Null)

EnvPool == {"ids", "fuzzy", "nopos", "surname", "nulls"}

RowsOf(e) ==
    IF e = "ids" THEN {RowTy, RowBadPos}
    ELSE IF e = "fuzzy" THEN {RowTy, RowGabe}
    ELSE IF e = "nopos" THEN {RowGabe, RowBadRk}
    ELSE IF e = "surname" THEN {RowMarq, RowMarqFA}
    ELSE {RowGabe, RowTy}

\* JSON objects keep their key order: a registry snapshot is a sequence of
\* records with distinct keys.
RegistriesOf(e) ==
    IF e = "ids" THEN { <<S1, S2>>, <<S2>>, <<S1, S9>> }
    ELSE IF e = "fuzzy" THEN { <<S3, S4>>, <<S12, S4>>, <<S12>> }
    ELSE IF e = "nopos" THEN { <<S5>>, <<S4>>, <<S5, S4>> }
    ELSE IF e = "surname" THEN { <<S6, S8>>, <<S6, S7>> }
    ELSE { <<S10>>, <<S10, S11>> }

\* The picks JSON, as the list of its player_id values (None: a pick
\* without a player).
PicksOf(e) ==
    IF e = "ids" THEN { <<>>, <<"1">>, <<None, "2">>, <<"2", "1">> }
    ELSE IF e = "fuzzy" THEN { <<>>, <<"3">>, <<"4", "3", "4">> }
    ELSE IF e = "nopos" THEN { <<>>, <<"5">>, <<"4", None>>, <<"4", "5">> }
    ELSE IF e = "surname" THEN { <<>>, <<"6">> }
    ELSE { <<>>, <<"10", "12">>, <<"11">> }

DraftIdPool == { <<>>, <<" ">>, <<"d","1">> }

\* All sequences over S of length at most n
SeqsUpTo(S, n) == UNION { [1..k -> S] : k \in 0..n }

(***************************************************************************)
(* State of a FantasyDraftTool object.                                     *)
(*   players              self.players, a list of Player records           *)
(*   sleeper_players      self.sleeper_players, in key order               *)
(*   sleeper_draft_id     self.sleeper_draft_id (None or text)             *)
(*   drafted_sleeper_ids  self.drafted_sleeper_ids                         *)
(*   last_call            the method that returned last, with the locals   *)
(*                        it held on return                                *)
(*   env                  the environment the object runs in               *)
(***************************************************************************)
VARIABLES players, sleeper_players, sleeper_draft_id, drafted_sleeper_ids, last_call, env

vars == <<players, sleeper_players, sleeper_draft_id, drafted_sleeper_ids, last_call, env>>

Call(op) == [op |-> op]

(***************************************************************************)
(* load_fantasypros_data_from_content                                      *)
(***************************************************************************)
\* The longest prefix of s made of characters of the set cs
RECURSIVE TakeWhile(_, _)
TakeWhile(s, cs) ==
    IF s # <<>> /\ Head(s) \in cs THEN <<Head(s)>> \o TakeWhile(Tail(s), cs) ELSE <<>>

DropN(s, n) == SubSeq(s, n + 1, Len(s))

\* re.match(r'([A-Z]+)(\d+)', pos): the two groups, or <<>> for no match
PosMatch(pos) ==
    LET letters == TakeWhile(pos, UpperLetters)
        digits == TakeWhile(DropN(pos, Len(letters)), DigitChars)
    IN IF letters # <<>> /\ digits # <<>> THEN <<letters, digits>> ELSE <<>>

\* int(s) succeeds: optional surrounding whitespace, optional sign, digits
IsIntText(s) ==
    LET t == Strip(s)
        u == IF t # <<>> /\ Head(t) \in {"+", "-"} THEN Tail(t) ELSE t
    IN u # <<>> /\ \A i \in 1..Len(u) : IsDigit(u[i])

RECURSIVE DigitsVal(_, _)
DigitsVal(u, acc) ==
    IF u = <<>> THEN acc
    ELSE DigitsVal(Tail(u), 10 * acc + (IndexOf(Digits10, Head(u)) - 1))

IntVal(s) ==
    LET t == Strip(s)
    IN IF Head(t) = "-" THEN 0 - DigitsVal(Tail(t), 0)
       ELSE IF Head(t) = "+" THEN DigitsVal(Tail(t), 0)
       ELSE DigitsVal(t, 0)

\* Player(...): sleeper_id, drafted and drafted_by take their defaults
Player(name, team, position, overall_rank, position_rank, tier) ==
    [name |-> name, team |-> team, position |-> position,
     overall_rank |-> overall_rank, position_rank |-> position_rank,
     tier |-> tier, sleeper_id |-> None, drafted |-> FALSE, drafted_by |-> None]

\* The body of the for loop for one row, statement by statement: "skip" for
\* `continue' and for a caught KeyError or ValueError, "raise" for the
\* TypeError or AttributeError a None value gives, which line 132 does not
\* catch, "player" when a Player is appended
RowOutcome(row) ==
    IF row.POS = Missing THEN "skip"
    ELSE IF row.POS = Null THEN "raise"
    ELSE IF PosMatch(row.POS) = <<>> THEN "skip"
    ELSE IF row.SOS = Missing THEN "skip"
    ELSE IF row.SOS = Null THEN "raise"
    ELSE IF row.name = Missing THEN "skip"
    ELSE IF row.name = Null THEN "raise"
    ELSE IF row.team = Missing THEN "skip"
    ELSE IF row.team = Null THEN "raise"
    ELSE IF row.RK = Missing THEN "skip"
    ELSE IF row.RK = Null THEN "raise"
    ELSE IF ~IsIntText(row.RK) THEN "skip"
    ELSE IF row.TIERS = Missing THEN "skip"
    ELSE IF row.TIERS = Null THEN "raise"
    ELSE IF ~IsIntText(row.TIERS) THEN "skip"
    ELSE "player"

RowParses(row) == RowOutcome(row) = "player"

ParseRow(row) ==
    Player(Strip(row.name), Strip(row.team), PosMatch(row.POS)[1],
           IntVal(row.RK), IntVal(PosMatch(row.POS)[2]), IntVal(row.TIERS))

\* The for loop: the players appended until the rows end or one raises
RECURSIVE LoadRows(_, _)
LoadRows(ps, rows) ==
    IF rows = <<>> \/ RowOutcome(Head(rows)) = "raise" THEN ps
    ELSE LoadRows(IF RowParses(Head(rows)) THEN Append(ps, ParseRow(Head(rows))) ELSE ps,
                  Tail(rows))

\* The loop ends with an exception leaving the method
RECURSIVE LoadRaises(_)
LoadRaises(rows) ==
    /\ rows # <<>>
    /\ \/ RowOutcome(Head(rows)) = "raise"
       \/ LoadRaises(Tail(rows))

LoadFantasyProsData ==
    \E rows \in SeqsUpTo(RowsOf(env), MaxPlayers) :
        /\ rows # <<>>
        /\ Len(LoadRows(players, rows)) <= MaxPlayers
        /\ players' = LoadRows(players, rows)
        /\ last_call' = Call(IF LoadRaises(rows) THEN "load_fantasypros_data_raised"
                             ELSE "load_fantasypros_data")
        /\ UNCHANGED <<sleeper_players, sleeper_draft_id, drafted_sleeper_ids, env>>

(***************************************************************************)
(* fetch_sleeper_data                                                      *)
(***************************************************************************)
FetchSleeperDataOk ==
    \E reg \in RegistriesOf(env) :
        /\ sleeper_players' = reg
        /\ last_call' = Call("fetch_sleeper_data")
        /\ UNCHANGED <<players, sleeper_draft_id, drafted_sleeper_ids, env>>

\* requests.RequestException
\* Variant of FetchSleeperDataFail: the previous registry is kept
FetchSleeperDataFail_keepsRegistry ==
    /\ last_call' = Call("fetch_sleeper_data_failed")
    /\ UNCHANGED <<players, sleeper_players, sleeper_draft_id, drafted_sleeper_ids, env>>

FetchSleeperDataFail ==
    /\ sleeper_players' = <<>>
    /\ last_call' = Call("fetch_sleeper_data_failed")
    /\ UNCHANGED <<players, sleeper_draft_id, drafted_sleeper_ids, env>>

(***************************************************************************)
(* Python dicts, in insertion order: sequences of <<key, value>>.          *)
(***************************************************************************)
DictHas(d, k) == \E i \in 1..Len(d) : d[i][1] = k
DictGet(d, k) == d[CHOOSE i \in 1..Len(d) : d[i][1] = k][2]
\* Variant of DictSet: an existing key keeps its value (dict.setdefault)
DictSet_firstWins(d, k, v) ==
    IF DictHas(d, k) THEN d ELSE Append(d, <<k, v>>)

\* d[k] = v: an existing key keeps its place
DictSet(d, k, v) ==
    IF DictHas(d, k) THEN [i \in 1..Len(d) |-> IF d[i][1] = k THEN <<k, v>> ELSE d[i]]
    ELSE Append(d, <<k, v>>)
DictKeys(d) == [i \in 1..Len(d) |-> d[i][1]]

\* self.sleeper_players.get(id): the record, or <<>> for None
HasRec(reg, id) == \E i \in 1..Len(reg) : reg[i].id = id
RecOf(reg, id) == reg[CHOOSE i \in 1..Len(reg) : reg[i].id = id]

(***************************************************************************)
(* match_players: the index over the registry (lines 164-193)              *)
(***************************************************************************)
\* Variant of EmptyIndex: the tables still hold the entries of an earlier pass
\* over a registry with record "1"
EmptyIndex_stale ==
    [sleeper_names |-> << <<TyJones, "1">> >>,
     normalized_map |-> << <<_normalize_name(TyJones), "1">> >>,
     position_map |-> <<>>]

EmptyIndex == [sleeper_names |-> <<>>, normalized_map |-> <<>>, position_map |-> <<>>]

FirstLast(sp) == OrEmpty(sp.first_name) \o <<" ">> \o OrEmpty(sp.last_name)

\* The normalized keys one registry record contributes, in the order the
\* code writes them.
NormKeysOf(sp) ==
    (IF Truthy(sp.full_name) THEN <<_normalize_name(sp.full_name)>> ELSE <<>>)
    \o (IF Truthy(sp.search_full_name)
        THEN <<_normalize_name(sp.search_full_name)>> ELSE <<>>)
    \o (IF Truthy(sp.first_name) /\ Truthy(sp.last_name)
        THEN <<_normalize_name(FirstLast(sp))>> ELSE <<>>)

RECURSIVE SetAll(_, _, _)
SetAll(d, keys, v) ==
    IF keys = <<>> THEN d ELSE SetAll(DictSet(d, Head(keys), v), Tail(keys), v)

\* One iteration of the loop over self.sleeper_players.items()
IndexStep(idx, sp) ==
    LET pos == UpperStr(OrEmpty(sp.position))
        old == IF DictHas(idx.position_map, pos) THEN DictGet(idx.position_map, pos) ELSE <<>>
    IN [sleeper_names |->
            IF Truthy(sp.full_name) THEN DictSet(idx.sleeper_names, sp.full_name, sp.id)
            ELSE idx.sleeper_names,
        normalized_map |-> SetAll(idx.normalized_map, NormKeysOf(sp), sp.id),
        position_map |->
            IF pos # NoText
            THEN DictSet(idx.position_map, pos, SetAll(old, NormKeysOf(sp), sp.id))
            ELSE idx.position_map]

RECURSIVE BuildIndexFrom(_, _)
BuildIndexFrom(idx, reg) ==
    IF reg = <<>> THEN idx ELSE BuildIndexFrom(IndexStep(idx, Head(reg)), Tail(reg))

BuildIndex(reg) == BuildIndexFrom(EmptyIndex, reg)

(***************************************************************************)
(* match_players: the tiers (lines 197-247)                                *)
(***************************************************************************)
FuzzyThreshold == 88

\* position_map.get(player.position, {}) or normalized_map
\* Variant of CandidatesMap: the full normalized table is always searched
CandidatesMap_allPositions(idx, p) == idx.normalized_map

\* candidates_map = position_map.get(player.position, {}) or normalized_map
CandidatesMap(idx, p) ==
    IF DictHas(idx.position_map, p.position) /\ DictGet(idx.position_map, p.position) # <<>>
    THEN DictGet(idx.position_map, p.position)
    ELSE idx.normalized_map

BestMatch(idx, p) == extractOne(_normalize_name(p.name), DictKeys(CandidatesMap(idx, p)))

\* Variant of FuzzyAccepts: the comparison is strict
FuzzyAccepts_strict(best_match) == best_match # <<>> /\ best_match[2] > FuzzyThreshold

\* if best_match and best_match[1] >= 88
FuzzyAccepts(best_match) == best_match # <<>> /\ best_match[2] >= FuzzyThreshold

\* self._normalize_name(name).split(" ")[-1]
LastToken(norm) ==
    LET ws == SplitWords(norm, <<>>) IN IF ws = <<>> THEN <<>> ELSE ws[Len(ws)]

\* The ids appended to fallback_candidates, in registry order
RECURSIVE FallbackScan(_, _, _, _)
FallbackScan(reg, last_name, team, pos) ==
    IF reg = <<>> THEN <<>>
    ELSE LET sp == Head(reg)
             hit == /\ _normalize_name(sp.last_name) = last_name
                    /\ UpperStr(OrEmpty(sp.team)) = team
                    /\ UpperStr(OrEmpty(sp.position)) = pos
         IN (IF hit THEN <<sp.id>> ELSE <<>>) \o FallbackScan(Tail(reg), last_name, team, pos)

\* Variant of FallbackCandidates: the team FA is not excluded
FallbackCandidates_withFA(reg, p) ==
    LET last_name == LastToken(_normalize_name(p.name))
        team == UpperStr(OrEmpty(p.team))
        pos == UpperStr(OrEmpty(p.position))
    IN IF last_name # <<>> /\ team # <<>> /\ pos # <<>>
       THEN FallbackScan(reg, last_name, team, pos)
       ELSE <<>>

FallbackCandidates(reg, p) ==
    LET last_name == LastToken(_normalize_name(p.name))
        team == UpperStr(OrEmpty(p.team))
        pos == UpperStr(OrEmpty(p.position))
    IN IF last_name # <<>> /\ team # <<>> /\ team # FA /\ pos # <<>>
       THEN FallbackScan(reg, last_name, team, pos)
       ELSE <<>>

\* Variant of FallbackAccepts: the first candidate is taken when there are several
FallbackAccepts_first(fallback_candidates) == Len(fallback_candidates) >= 1

\* if len(fallback_candidates) == 1
FallbackAccepts(fallback_candidates) == Len(fallback_candidates) = 1

\* Variant of MatchOne: the normalized lookup is tried before the raw one
MatchOne_normalizedFirst(idx, reg, p) ==
    LET normalized_fp == _normalize_name(p.name)
        best_match == BestMatch(idx, p)
        fallback_candidates == FallbackCandidates(reg, p)
    IN IF DictHas(idx.normalized_map, normalized_fp)
       THEN [tier |-> 2, sleeper_id |-> DictGet(idx.normalized_map, normalized_fp)]
       ELSE IF DictHas(idx.sleeper_names, p.name)
       THEN [tier |-> 1, sleeper_id |-> DictGet(idx.sleeper_names, p.name)]
       ELSE IF FuzzyAccepts(best_match)
       THEN [tier |-> 3, sleeper_id |-> DictGet(CandidatesMap(idx, p), best_match[1])]
       ELSE IF FallbackAccepts(fallback_candidates)
       THEN [tier |-> 4, sleeper_id |-> fallback_candidates[1]]
       ELSE [tier |-> 0, sleeper_id |-> p.sleeper_id]

\* The body of the loop over self.players for one player: the tier that
\* matched (0 when none did) and the player's sleeper_id afterwards.
MatchOne(idx, reg, p) ==
    LET normalized_fp == _normalize_name(p.name)
        best_match == BestMatch(idx, p)
        fallback_candidates == FallbackCandidates(reg, p)
    IN IF DictHas(idx.sleeper_names, p.name)
       THEN [tier |-> 1, sleeper_id |-> DictGet(idx.sleeper_names, p.name)]
       ELSE IF DictHas(idx.normalized_map, normalized_fp)
       THEN [tier |-> 2, sleeper_id |-> DictGet(idx.normalized_map, normalized_fp)]
       ELSE IF FuzzyAccepts(best_match)
       THEN [tier |-> 3, sleeper_id |-> DictGet(CandidatesMap(idx, p), best_match[1])]
       ELSE IF FallbackAccepts(fallback_candidates)
       THEN [tier |-> 4, sleeper_id |-> fallback_candidates[1]]
       ELSE [tier |-> 0, sleeper_id |-> p.sleeper_id]

(***************************************************************************)
(* apply_drafted_status (lines 306-348).  The set drafted_sleeper_ids is   *)
(* iterated in an order the program does not control: `order' is that      *)
(* order, a sequence holding each drafted id once.                         *)
(***************************************************************************)
Orders(D) ==
    { o \in [1..Cardinality(D) -> D] : \A i, j \in 1..Cardinality(D) : i # j => o[i] # o[j] }

\* Variants of ResetDrafted: the reset also forgets the resolved id; the
\* reset toggles the flag instead of clearing it; the reset is left out.
ResetDrafted_clearsId(ps) ==
    [i \in 1..Len(ps) |->
        [ps[i] EXCEPT !.drafted = FALSE, !.drafted_by = None, !.sleeper_id = None]]

ResetDrafted_toggles(ps) ==
    [i \in 1..Len(ps) |-> [ps[i] EXCEPT !.drafted = ~ps[i].drafted, !.drafted_by = None]]

ResetDrafted_omitted(ps) == ps

\* lines 309-311
ResetDrafted(ps) ==
    [i \in 1..Len(ps) |-> [ps[i] EXCEPT !.drafted = FALSE, !.drafted_by = None]]

\* lines 317-324
DraftedNormalizedNames(reg, D) ==
    { _normalize_name(RecOf(reg, id).full_name) : id \in {d \in D : HasRec(reg, d)} }

\* Variant of DirectPass: the pass is left to the name fallback
DirectPass_omitted(ps, D) == ps

\* lines 327-329
DirectPass(ps, D) ==
    [i \in 1..Len(ps) |->
        IF ps[i].sleeper_id # None /\ ps[i].sleeper_id \in D
        THEN [ps[i] EXCEPT !.drafted = TRUE] ELSE ps[i]]

\* Variant of FallbackLoop: the loop stops at the first drafted record of the
\* same name, whatever its position
RECURSIVE FallbackLoop_firstName(_, _, _, _)
FallbackLoop_firstName(reg, order, norm_name, position) ==
    IF order = <<>> THEN FALSE
    ELSE IF ~HasRec(reg, Head(order))
         THEN FallbackLoop_firstName(reg, Tail(order), norm_name, position)
    ELSE LET sp == RecOf(reg, Head(order))
             sleeper_pos == UpperStr(OrEmpty(sp.position))
         IN IF _normalize_name(sp.full_name) = norm_name
            THEN sleeper_pos = NoText \/ sleeper_pos = position
            ELSE FallbackLoop_firstName(reg, Tail(order), norm_name, position)

\* lines 340-348: the inner loop over the drafted ids, TRUE when it sets
\* player.drafted and breaks
RECURSIVE FallbackLoop(_, _, _, _)
FallbackLoop(reg, order, norm_name, position) ==
    IF order = <<>> THEN FALSE
    ELSE IF ~HasRec(reg, Head(order)) THEN FallbackLoop(reg, Tail(order), norm_name, position)
    ELSE LET sp == RecOf(reg, Head(order))
             sleeper_pos == UpperStr(OrEmpty(sp.position))
         IN IF /\ _normalize_name(sp.full_name) = norm_name
               /\ (sleeper_pos = NoText \/ sleeper_pos = position)
            THEN TRUE
            ELSE FallbackLoop(reg, Tail(order), norm_name, position)

\* lines 332-348
NameFallbackPass(ps, reg, D, order) ==
    [i \in 1..Len(ps) |->
        IF ps[i].drafted THEN ps[i]
        ELSE IF /\ _normalize_name(ps[i].name) \in DraftedNormalizedNames(reg, D)
                /\ FallbackLoop(reg, order, _normalize_name(ps[i].name), ps[i].position)
        THEN [ps[i] EXCEPT !.drafted = TRUE] ELSE ps[i]]

\* Variant of apply_drafted_status: the test of the empty set comes before
\* the reset
apply_drafted_status_returnsFirst(ps, reg, D, order) ==
    IF D = {} THEN ps
    ELSE NameFallbackPass(DirectPass(ResetDrafted(ps), D), reg, D, order)

apply_drafted_status(ps, reg, D, order) ==
    IF D = {} THEN ResetDrafted(ps)
    ELSE NameFallbackPass(DirectPass(ResetDrafted(ps), D), reg, D, order)

ApplyDraftedStatus ==
    \E order \in Orders(drafted_sleeper_ids) :
        /\ players' = apply_drafted_status(players, sleeper_players, drafted_sleeper_ids, order)
        /\ last_call' = Call("apply_drafted_status")
        /\ UNCHANGED <<sleeper_players, sleeper_draft_id, drafted_sleeper_ids, env>>

\* Variant of ReapplyAfterMatch: the flags are reset and not derived again
ReapplyAfterMatch_resetOnly(ps, reg, D, order) ==
    IF D # {} THEN ResetDrafted(ps) ELSE ps

(***************************************************************************)
(* match_players (lines 160-270)                                           *)
(***************************************************************************)
\* Variant of ReapplyAfterMatch: the pass returns without reconciling
ReapplyAfterMatch_omitted(ps, reg, D, order) == ps

\* lines 268-270
ReapplyAfterMatch(ps, reg, D, order) ==
    IF D # {} THEN apply_drafted_status(ps, reg, D, order) ELSE ps

\* The loop over self.players: for each player the tier taken and the
\* sleeper_id afterwards.  The index is built once, before the loop.
MatchAll(ps, reg) ==
    LET idx == BuildIndex(reg)
    IN [i \in 1..Len(ps) |-> MatchOne(idx, reg, ps[i])]

\* The players after the loop
Resolved(ps, m) == [i \in 1..Len(ps) |-> [ps[i] EXCEPT !.sleeper_id = m[i].sleeper_id]]

\* Variant of UnmatchedFrom: a tier-4 match does not `continue'
RECURSIVE UnmatchedFrom_afterFallback(_, _)
UnmatchedFrom_afterFallback(m, i) ==
    IF i > Len(m) THEN <<>>
    ELSE (IF m[i].tier \in {0, 4} THEN <<i>> ELSE <<>>)
            \o UnmatchedFrom_afterFallback(m, i + 1)

RECURSIVE UnmatchedFrom(_, _)
UnmatchedFrom(m, i) ==
    IF i > Len(m) THEN <<>>
    ELSE (IF m[i].tier = 0 THEN <<i>> ELSE <<>>) \o UnmatchedFrom(m, i + 1)

\* The locals on return: matched_count, unmatched_players (as positions in
\* self.players) and the branch taken for each player.
\* Variant of MatchLocals: matched_count is incremented for every player
MatchLocals_countsAll(m) ==
    [op |-> "match_players",
     matched_count |-> Len(m),
     unmatched_players |-> UnmatchedFrom(m, 1),
     tier |-> [i \in 1..Len(m) |-> m[i].tier]]

MatchLocals(m) ==
    [op |-> "match_players",
     matched_count |-> Cardinality({i \in 1..Len(m) : m[i].tier # 0}),
     unmatched_players |-> UnmatchedFrom(m, 1),
     tier |-> [i \in 1..Len(m) |-> m[i].tier]]

MatchPlayers ==
    \E order \in Orders(drafted_sleeper_ids) :
        LET m == MatchAll(players, sleeper_players)
        IN /\ players' = ReapplyAfterMatch(Resolved(players, m), sleeper_players,
                                           drafted_sleeper_ids, order)
           /\ last_call' = MatchLocals(m)
           /\ UNCHANGED <<sleeper_players, sleeper_draft_id, drafted_sleeper_ids, env>>

(***************************************************************************)
(* set_sleeper_draft_id, fetch_sleeper_draft_picks                         *)
(***************************************************************************)
\* Variant of SetSleeperDraftId: the picks of the previous draft are dropped
SetSleeperDraftId_dropsPicks ==
    \E draft_id \in DraftIdPool :
        /\ sleeper_draft_id' = (IF Strip(draft_id) # <<>> THEN Strip(draft_id) ELSE None)
        /\ drafted_sleeper_ids' = {}
        /\ last_call' = [op |-> "set_sleeper_draft_id", draft_id |-> draft_id]
        /\ UNCHANGED <<players, sleeper_players, env>>

SetSleeperDraftId ==
    \E draft_id \in DraftIdPool :
        /\ sleeper_draft_id' = (IF Strip(draft_id) # <<>> THEN Strip(draft_id) ELSE None)
        /\ last_call' = [op |-> "set_sleeper_draft_id", draft_id |-> draft_id]
        /\ UNCHANGED <<players, sleeper_players, drafted_sleeper_ids, env>>

\* lines 282-284
FetchPicksNoDraftId ==
    /\ sleeper_draft_id = None
    /\ last_call' = Call("fetch_sleeper_draft_picks_no_id")
    /\ UNCHANGED <<players, sleeper_players, sleeper_draft_id, drafted_sleeper_ids, env>>

\* lines 292-297: the player_id of every pick that has one
PickedIds(picks) == {picks[i] : i \in 1..Len(picks)} \ {None}

\* Variant of NewDraftedIds: the new ids are merged into the old set
NewDraftedIds_merged(old, picks) == old \cup PickedIds(picks)

\* line 299
NewDraftedIds(old, picks) == PickedIds(picks)

FetchPicksOk ==
    \E picks \in PicksOf(env) :
      \E order \in Orders(NewDraftedIds(drafted_sleeper_ids, picks)) :
        /\ sleeper_draft_id # None
        /\ drafted_sleeper_ids' = NewDraftedIds(drafted_sleeper_ids, picks)
        /\ players' = apply_drafted_status(players, sleeper_players,
                                           NewDraftedIds(drafted_sleeper_ids, picks), order)
        /\ last_call' = [op |-> "fetch_sleeper_draft_picks", picks |-> picks]
        /\ UNCHANGED <<sleeper_players, sleeper_draft_id, env>>

\* Variant of FetchPicksFail: the stored set is emptied before the request
FetchPicksFail_clearsFirst ==
    /\ sleeper_draft_id # None
    /\ drafted_sleeper_ids' = {}
    /\ last_call' = Call("fetch_sleeper_draft_picks_failed")
    /\ UNCHANGED <<players, sleeper_players, sleeper_draft_id, env>>

\* requests.RequestException
FetchPicksFail ==
    /\ sleeper_draft_id # None
    /\ last_call' = Call("fetch_sleeper_draft_picks_failed")
    /\ UNCHANGED <<players, sleeper_players, sleeper_draft_id, drafted_sleeper_ids, env>>

(***************************************************************************)
(* The object after __init__, and its operations.                          *)
(***************************************************************************)
\* Variant of DraftedNorms: the names of all ranked players are collected
DraftedNorms_allPlayers(ps) ==
    { _normalize_name(ps[i].name) : i \in 1..Len(ps) }

\* drafted_norms: the normalized names of the players flagged drafted
DraftedNorms(ps) ==
    { _normalize_name(ps[i].name) : i \in {j \in 1..Len(ps) : ps[j].drafted} }

\* The entries appended to unmatched while the drafted ids are visited in
\* the given order
RECURSIVE UnmatchedDraftedScan(_, _, _)
UnmatchedDraftedScan(reg, order, drafted_norms) ==
    IF order = <<>> THEN <<>>
    ELSE LET drafted_id == Head(order)
             rest == UnmatchedDraftedScan(reg, Tail(order), drafted_norms)
         IN IF ~HasRec(reg, drafted_id) THEN rest
            ELSE LET sp == RecOf(reg, drafted_id)
                 IN IF _normalize_name(sp.full_name) \notin drafted_norms
                    THEN <<[player_id |-> drafted_id,
                            full_name |-> sp.full_name,
                            position |-> sp.position,
                            team |-> sp.team]>> \o rest
                    ELSE rest

get_unmatched_drafted_from_sleeper(ps, reg, D, order) ==
    IF D = {} THEN <<>>
    ELSE UnmatchedDraftedScan(reg, order, DraftedNorms(ps))

GetUnmatchedDraftedFromSleeper ==
    \E order \in Orders(drafted_sleeper_ids) :
        /\ last_call' = [op |-> "get_unmatched_drafted_from_sleeper",
                         unmatched |-> get_unmatched_drafted_from_sleeper(
                                           players, sleeper_players,
                                           drafted_sleeper_ids, order)]
        /\ UNCHANGED <<players, sleeper_players, sleeper_draft_id,
                       drafted_sleeper_ids, env>>

\* ---------------------------------------------------------------------------
\* Exceptions: where the three core methods call a method of a value that
\* can be None, and what lets the value through
\* ---------------------------------------------------------------------------

\* v.lower() and v.upper() raise AttributeError when v is None
CallOnNone(v) == v = Null

\* line 56, name.lower(), is reached with the names line 54 lets through
NormalizeRaises(name) == Truthy(name) /\ CallOnNone(name)

\* lines 169-193 for one registry record
IndexRaises(sp) ==
    \/ Truthy(sp.full_name) /\ NormalizeRaises(OrEmpty(sp.full_name))
    \/ Truthy(sp.search_full_name) /\ NormalizeRaises(sp.search_full_name)
    \/ (Truthy(OrEmpty(sp.first_name)) /\ Truthy(OrEmpty(sp.last_name)))
          /\ NormalizeRaises(FirstLast(sp))
    \/ CallOnNone(OrEmpty(sp.position))

\* lines 235-238 for one registry record: the three comparisons are joined
\* by `and', so a later one is evaluated only when the earlier ones hold
ScanRaises(sp, last_name, team, pos) ==
    \/ NormalizeRaises(sp.last_name)
    \/ /\ _normalize_name(sp.last_name) = last_name
       /\ \/ CallOnNone(OrEmpty(sp.team))
          \/ /\ UpperStr(OrEmpty(sp.team)) = team
             /\ CallOnNone(OrEmpty(sp.position))

\* match_players raises: while it builds the tables, or in the tier-4 scan
\* of a player that missed tiers 1 to 3
MatchRaises(ps, reg) ==
    \/ \E k \in 1..Len(reg) : IndexRaises(reg[k])
    \/ \E i \in 1..Len(ps) :
          LET p == ps[i]
              last_name == LastToken(_normalize_name(p.name))
              team == UpperStr(OrEmpty(p.team))
              pos == UpperStr(OrEmpty(p.position))
          IN /\ MatchOne(BuildIndex(reg), reg, p).tier \in {0, 4}
             /\ \/ CallOnNone(OrEmpty(p.team))
                \/ CallOnNone(OrEmpty(p.position))
                \/ /\ last_name # <<>> /\ team # <<>> /\ team # FA /\ pos # <<>>
                   /\ \E k \in 1..Len(reg) : ScanRaises(reg[k], last_name, team, pos)

\* apply_drafted_status raises: lines 319-324 for a drafted id that has a
\* registry record (line 321 skips the others), lines 336-345 for a player
\* that reaches the inner loop
ReconcileRaises(ps, reg, D) ==
    /\ D # {}
    /\ \/ \E id \in D : HasRec(reg, id) /\ NormalizeRaises(RecOf(reg, id).full_name)
       \/ \E i \in 1..Len(ps) :
             /\ ~(ps[i].sleeper_id # None /\ ps[i].sleeper_id \in D)
             /\ _normalize_name(ps[i].name) \in DraftedNormalizedNames(reg, D)
             /\ \E id \in D :
                   /\ HasRec(reg, id)
                   /\ _normalize_name(RecOf(reg, id).full_name)
                         = _normalize_name(ps[i].name)
                   /\ CallOnNone(OrEmpty(RecOf(reg, id).position))

\* get_unmatched_drafted_from_sleeper raises: lines 360-364 for a drafted id
\* that has a registry record (line 362 skips the others)
ReportRaises(ps, reg, D) ==
    /\ D # {}
    /\ \/ \E i \in 1..Len(ps) : ps[i].drafted /\ NormalizeRaises(ps[i].name)
       \/ \E id \in D : HasRec(reg, id) /\ NormalizeRaises(RecOf(reg, id).full_name)

Init ==
    /\ players = <<>>
    /\ sleeper_players = <<>>
    /\ sleeper_draft_id = None
    /\ drafted_sleeper_ids = {}
    /\ last_call = Call("__init__")
    /\ env \in EnvPool

Next ==
    \/ LoadFantasyProsData
    \/ FetchSleeperDataOk
    \/ FetchSleeperDataFail
    \/ MatchPlayers
    \/ ApplyDraftedStatus
    \/ SetSleeperDraftId
    \/ FetchPicksNoDraftId
    \/ FetchPicksOk
    \/ FetchPicksFail
    \/ GetUnmatchedDraftedFromSleeper

Spec == Init /\ [][Next]_vars

(***************************************************************************)
(* Properties.                                                             *)
(***************************************************************************)
PlayerIdx == 1..Len(players)

\* The state is the one a reconcile left behind: apply_drafted_status ran
\* on its own, inside fetch_sleeper_draft_picks or at the end of
\* match_players.
AfterReconcile ==
    \/ last_call.op \in {"apply_drafted_status", "fetch_sleeper_draft_picks"}
    \/ last_call.op = "match_players" /\ drafted_sleeper_ids # {}

\* Registry record `id' is one that flags player p by name: same normalized
\* name, and no position or p's position.
QualifiesByName(reg, id, p) ==
    /\ HasRec(reg, id)
    /\ _normalize_name(RecOf(reg, id).full_name) = _normalize_name(p.name)
    /\ \/ ~Truthy(RecOf(reg, id).position)
       \/ UpperStr(RecOf(reg, id).position) = p.position

\* Registry record `id' carries p's normalized name but another position
SameNameOtherPosition(reg, id, p) ==
    /\ HasRec(reg, id)
    /\ _normalize_name(RecOf(reg, id).full_name) = _normalize_name(p.name)
    /\ Truthy(RecOf(reg, id).position)
    /\ UpperStr(RecOf(reg, id).position) # p.position

DirectHit(p, D) == p.sleeper_id # None /\ p.sleeper_id \in D

ShouldBeDrafted(p, reg, D) ==
    DirectHit(p, D) \/ \E id \in D : QualifiesByName(reg, id, p)

\* C1: once a record has a sleeper_id, no step changes it: a later
\* resolution pass leaves a resolved record alone, even after the registry
\* snapshot changed.  (Stated as in the specification; match_players
\* violates it.)
C1_ResolvedIdIsStable ==
    [][\A i \in PlayerIdx :
          players[i].sleeper_id # None
              => /\ i <= Len(players')
                 /\ players'[i].sleeper_id = players[i].sleeper_id]_vars

\* C2, as stated: match_players leaves every record's drafted flag as it
\* was, whatever the drafted-id set is.
C2_MatchNeverTouchesDrafted ==
    [][last_call'.op = "match_players"
          => \A i \in PlayerIdx : players'[i].drafted = players[i].drafted]_vars

\* C2, amended: match_players leaves every drafted flag as it was when the
\* drafted-id set is empty; when the set is not empty the pass ends with a
\* reconcile, so a record is drafted after the pass exactly when its (new)
\* sleeper_id is in the set or a drafted registry record qualifies by name.
C2_MatchDraftedEffect ==
    [][last_call'.op = "match_players"
          => /\ Len(players') = Len(players)
             /\ \A i \in PlayerIdx :
                   IF drafted_sleeper_ids = {}
                   THEN players'[i].drafted = players[i].drafted
                   ELSE players'[i].drafted
                            = ShouldBeDrafted(players'[i], sleeper_players, drafted_sleeper_ids)]_vars

\* A pass that matched a record whose new id is drafted, and flagged it
C2_Witness ==
    /\ last_call.op = "match_players"
    /\ \E i \in PlayerIdx :
          /\ last_call.tier[i] # 0
          /\ players[i].sleeper_id \in drafted_sleeper_ids
          /\ players[i].drafted

\* C3: apply_drafted_status changes nothing of a record but drafted and
\* drafted_by (so never sleeper_id), and leaves the registry and the
\* drafted-id set alone; the reconcile inside fetch_sleeper_draft_picks
\* leaves every sleeper_id alone as well.
C3_ReconcileFrame ==
    [][/\ last_call'.op \in {"apply_drafted_status", "fetch_sleeper_draft_picks"}
          => /\ Len(players') = Len(players)
             /\ \A i \in PlayerIdx :
                   players'[i] = [players[i] EXCEPT !.drafted = players'[i].drafted,
                                                    !.drafted_by = players'[i].drafted_by]
             /\ sleeper_players' = sleeper_players
       /\ last_call'.op = "apply_drafted_status"
          => drafted_sleeper_ids' = drafted_sleeper_ids]_vars

\* A reconcile flagged a resolved record, which still has its id
C3_Witness ==
    /\ last_call.op = "apply_drafted_status"
    /\ \E i \in PlayerIdx :
          /\ players[i].sleeper_id # None
          /\ players[i].sleeper_id \in drafted_sleeper_ids
          /\ players[i].drafted

\* C4: reconcile is idempotent: in the state a reconcile left behind,
\* running apply_drafted_status again with the same drafted ids, in
\* whatever order it visits them, leaves every record as it is.
C4_ReconcileIdempotent ==
    AfterReconcile
        => \A order \in Orders(drafted_sleeper_ids) :
              apply_drafted_status(players, sleeper_players, drafted_sleeper_ids, order)
                  = players

\* After a reconcile with drafted ids, some record is flagged and some is not
C4_Witness ==
    /\ last_call.op = "apply_drafted_status"
    /\ drafted_sleeper_ids # {}
    /\ \E i, j \in PlayerIdx : players[i].drafted /\ ~players[j].drafted

\* C5: reconcile is a full recompute: a reconcile with an empty drafted-id
\* set leaves no record drafted, whatever was flagged before it.
C5_EmptySetClearsAll ==
    [][(/\ last_call'.op \in {"apply_drafted_status", "fetch_sleeper_draft_picks"}
        /\ drafted_sleeper_ids' = {})
          => \A i \in 1..Len(players') : ~players'[i].drafted]_vars

\* A refresh with no picks ran over a resolved record
C5_Witness ==
    /\ last_call.op = "fetch_sleeper_draft_picks"
    /\ drafted_sleeper_ids = {}
    /\ \E i \in PlayerIdx : players[i].sleeper_id # None /\ ~players[i].drafted

\* C6: a successful pick refresh replaces the stored drafted-id set by the
\* player ids of the picks just fetched (no id of an earlier refresh
\* survives), and every drafted flag is the one a reconcile against that
\* set alone gives.
C6_RefreshReplacesSet ==
    last_call.op = "fetch_sleeper_draft_picks"
        => /\ drafted_sleeper_ids
                = {last_call.picks[k] : k \in 1..Len(last_call.picks)} \ {None}
           /\ \A i \in PlayerIdx :
                 players[i].drafted
                     = ShouldBeDrafted(players[i], sleeper_players, drafted_sleeper_ids)

\* After a refresh with picks, a resolved record whose id is not among them
\* is not drafted
C6_Witness ==
    /\ last_call.op = "fetch_sleeper_draft_picks"
    /\ drafted_sleeper_ids # {}
    /\ \E i \in PlayerIdx :
          /\ players[i].sleeper_id # None
          /\ players[i].sleeper_id \notin drafted_sleeper_ids
          /\ ~players[i].drafted

\* C7: after a reconcile, every record whose sleeper_id is in the drafted-id
\* set is drafted, whether or not the registry holds that id, and a record
\* with neither such an id nor a drafted registry record qualifying by name
\* is not drafted.
C7_DirectPass ==
    AfterReconcile
        => \A i \in PlayerIdx :
              /\ DirectHit(players[i], drafted_sleeper_ids) => players[i].drafted
              /\ (/\ ~DirectHit(players[i], drafted_sleeper_ids)
                  /\ ~\E id \in drafted_sleeper_ids :
                         QualifiesByName(sleeper_players, id, players[i]))
                     => ~players[i].drafted

\* A record is drafted through its id alone: the registry does not hold it
C7_Witness ==
    /\ AfterReconcile
    /\ \E i \in PlayerIdx :
          /\ DirectHit(players[i], drafted_sleeper_ids)
          /\ ~HasRec(sleeper_players, players[i].sleeper_id)
          /\ players[i].drafted

\* C8: after a reconcile, a record the direct pass did not flag is drafted
\* exactly when some registry record with a drafted id has the record's
\* normalized name and either no position or (in upper case) the record's
\* position; a drafted namesake of another position alone does not flag it;
\* and the order in which the drafted ids are visited makes no difference.
C8_NameFallback ==
    AfterReconcile
        => /\ \A i \in PlayerIdx :
                 ~DirectHit(players[i], drafted_sleeper_ids)
                     => (players[i].drafted
                            <=> \E id \in drafted_sleeper_ids :
                                   QualifiesByName(sleeper_players, id, players[i]))
           /\ \A o1, o2 \in Orders(drafted_sleeper_ids) :
                 apply_drafted_status(players, sleeper_players, drafted_sleeper_ids, o1)
                     = apply_drafted_status(players, sleeper_players, drafted_sleeper_ids, o2)

\* A record without a drafted id is flagged by name although one of the
\* drafted records of its name has another position
C8_Witness ==
    /\ AfterReconcile
    /\ \E i \in PlayerIdx :
          /\ ~DirectHit(players[i], drafted_sleeper_ids)
          /\ players[i].drafted
          /\ \E id \in drafted_sleeper_ids :
                SameNameOtherPosition(sleeper_players, id, players[i])

\* C9: tier order.  After a resolution pass, a record whose raw name is a
\* key of the exact table took tier 1 and has that table's id; otherwise a
\* record whose normalized name is a key of the normalized table took tier 2
\* and has that table's id; tiers 3 and 4 are taken only when both lookups
\* miss.
C9_TierOrder ==
    last_call.op = "match_players"
        => \A i \in PlayerIdx :
              LET idx == BuildIndex(sleeper_players)
                  exact == DictHas(idx.sleeper_names, players[i].name)
                  norm == DictHas(idx.normalized_map, _normalize_name(players[i].name))
              IN /\ exact => /\ last_call.tier[i] = 1
                             /\ players[i].sleeper_id
                                    = DictGet(idx.sleeper_names, players[i].name)
                 /\ (~exact /\ norm)
                        => /\ last_call.tier[i] = 2
                           /\ players[i].sleeper_id
                                  = DictGet(idx.normalized_map,
                                            _normalize_name(players[i].name))
                 /\ last_call.tier[i] \in {0, 3, 4} => (~exact /\ ~norm)

\* A record took the exact tier although the normalized table holds another
\* id for its name
C9_Witness ==
    /\ last_call.op = "match_players"
    /\ \E i \in PlayerIdx :
          LET idx == BuildIndex(sleeper_players)
          IN /\ last_call.tier[i] = 1
             /\ DictHas(idx.normalized_map, _normalize_name(players[i].name))
             /\ DictGet(idx.normalized_map, _normalize_name(players[i].name))
                    # players[i].sleeper_id

\* C10: the fuzzy threshold.  After a resolution pass, a record that missed
\* tiers 1 and 2 took tier 3 exactly when its best candidate scores 88 or
\* more, and then has that candidate's id; a best score of 87 never takes
\* tier 3 and a best score of 88 always does.
C10_FuzzyThreshold ==
    last_call.op = "match_players"
        => \A i \in PlayerIdx :
              LET idx == BuildIndex(sleeper_players)
                  best == BestMatch(idx, players[i])
              IN last_call.tier[i] \notin {1, 2}
                    => /\ last_call.tier[i] = 3 <=> (best # <<>> /\ best[2] >= 88)
                       /\ last_call.tier[i] = 3
                             => players[i].sleeper_id
                                    = DictGet(CandidatesMap(idx, players[i]), best[1])
                       /\ (best # <<>> /\ best[2] = 87) => last_call.tier[i] # 3
                       /\ (best # <<>> /\ best[2] = 88) => last_call.tier[i] = 3

\* One pass took tier 3 for a record whose best candidate scores 88 and
\* refused it for a record whose best candidate scores 87
C10_Witness ==
    /\ last_call.op = "match_players"
    /\ \E i, j \in PlayerIdx :
          LET idx == BuildIndex(sleeper_players)
          IN /\ BestMatch(idx, players[i]) # <<>>
             /\ BestMatch(idx, players[i])[2] = 88
             /\ last_call.tier[i] = 3
             /\ BestMatch(idx, players[j]) # <<>>
             /\ BestMatch(idx, players[j])[2] = 87
             /\ last_call.tier[j] \notin {1, 2, 3}

\* The registry records (by position in the registry) whose normalized
\* last_name, upper-cased team and upper-cased position equal the surname key,
\* team and position of ranked record p; a ranked record whose team is FA or
\* whose surname key, team or position is empty has no such records
TripleMatches(reg, p) ==
    LET surname == LastToken(_normalize_name(p.name))
    IN {k \in 1..Len(reg) :
          /\ surname # <<>>
          /\ p.team # <<>>
          /\ UpperStr(p.team) # FA
          /\ p.position # <<>>
          /\ _normalize_name(reg[k].last_name) = surname
          /\ Truthy(reg[k].team)
          /\ UpperStr(reg[k].team) = UpperStr(p.team)
          /\ Truthy(reg[k].position)
          /\ UpperStr(reg[k].position) = UpperStr(p.position)}

\* C11: tier-4 uniqueness.  After a resolution pass, a record that missed
\* tiers 1 to 3 took tier 4 exactly when one registry record satisfies its
\* (surname, team, position) triple, and then has that record's id; with two
\* or more such records, or none, no tier matched and the record is in the
\* unmatched list.
C11_Tier4Unique ==
    last_call.op = "match_players"
        => \A i \in PlayerIdx :
              LET hits == TripleMatches(sleeper_players, players[i])
              IN last_call.tier[i] \notin {1, 2, 3}
                    => /\ last_call.tier[i] = 4 <=> Cardinality(hits) = 1
                       /\ last_call.tier[i] = 4
                             => \A k \in hits :
                                   players[i].sleeper_id = sleeper_players[k].id
                       /\ Cardinality(hits) # 1
                             => /\ last_call.tier[i] = 0
                                /\ \E u \in 1..Len(last_call.unmatched_players) :
                                      last_call.unmatched_players[u] = i

\* A record with two registry records on its triple was left unmatched
C11_Witness ==
    /\ last_call.op = "match_players"
    /\ \E i \in PlayerIdx :
          /\ Cardinality(TripleMatches(sleeper_players, players[i])) >= 2
          /\ last_call.tier[i] = 0
          /\ \E u \in 1..Len(last_call.unmatched_players) :
                last_call.unmatched_players[u] = i

\* C12: tier-4 soundness.  After a resolution pass, the id of a record that
\* took tier 4 is the id of a registry record whose normalized last_name is
\* the last token of the record's normalized name and whose upper-cased team
\* and position are the record's; a record whose team is FA, or whose team,
\* position or surname key is empty, never takes tier 4.
C12_Tier4Sound ==
    last_call.op = "match_players"
        => \A i \in PlayerIdx :
              LET p == players[i]
                  surname == LastToken(_normalize_name(p.name))
              IN /\ last_call.tier[i] = 4
                    => \E k \in 1..Len(sleeper_players) :
                          LET sp == sleeper_players[k]
                          IN /\ sp.id = p.sleeper_id
                             /\ _normalize_name(sp.last_name) = surname
                             /\ Truthy(sp.team)
                             /\ UpperStr(sp.team) = UpperStr(p.team)
                             /\ Truthy(sp.position)
                             /\ UpperStr(sp.position) = UpperStr(p.position)
                 /\ (UpperStr(p.team) = FA \/ p.team = <<>>
                        \/ p.position = <<>> \/ surname = <<>>)
                       => last_call.tier[i] # 4

\* One pass resolved a record by surname, team and position and left a free
\* agent unmatched although a registry record carries its surname, team FA
\* and its position
C12_Witness ==
    /\ last_call.op = "match_players"
    /\ \E i, j \in PlayerIdx :
          /\ last_call.tier[i] = 4
          /\ players[i].sleeper_id # None
          /\ UpperStr(players[j].team) = FA
          /\ \E k \in 1..Len(sleeper_players) :
                /\ _normalize_name(sleeper_players[k].last_name)
                      = LastToken(_normalize_name(players[j].name))
                /\ UpperStr(sleeper_players[k].team) = FA
                /\ UpperStr(sleeper_players[k].position) = UpperStr(players[j].position)
          /\ last_call.tier[j] = 0

\* C13: unmatched outcome.  After a resolution pass, a record for which no
\* tier matched is in the unmatched list, has no sleeper_id, and its best
\* fuzzy candidate, when there is one, scores below 88.
C13_UnmatchedHasNoId ==
    last_call.op = "match_players"
        => \A i \in PlayerIdx :
              LET best == BestMatch(BuildIndex(sleeper_players), players[i])
              IN last_call.tier[i] = 0
                    => /\ \E u \in 1..Len(last_call.unmatched_players) :
                             last_call.unmatched_players[u] = i
                       /\ players[i].sleeper_id = None
                       /\ best # <<>> => best[2] < FuzzyThreshold

\* ---------------------------------------------------------------------------
\* The name normalizer on its own: a static method, applied to one argument
\* ---------------------------------------------------------------------------

MaxNameLen == 4

NameAlphabet == {"a", "J", "r", "v", "E_acute", "'", " ", "TAB", "1"}

\* The arguments: every text of at most MaxNameLen characters; NoText is both
\* None and ""
NameInputs == SeqsUpTo(NameAlphabet, MaxNameLen)

\* A tool as constructed and an argument about to be passed to _normalize_name
InitNormalize ==
    /\ players = <<>>
    /\ sleeper_players = <<>>
    /\ sleeper_draft_id = None
    /\ drafted_sleeper_ids = {}
    /\ env = "names"
    /\ \E name \in NameInputs : last_call = [op |-> "__init__", name |-> name]

NormalizeName ==
    /\ last_call.op = "__init__"
    /\ last_call' = [op |-> "_normalize_name",
                     name |-> last_call.name,
                     result |-> _normalize_name(last_call.name)]
    /\ UNCHANGED <<players, sleeper_players, sleeper_draft_id, drafted_sleeper_ids, env>>

NextNormalize == NormalizeName

SpecNormalize == InitNormalize /\ [][NextNormalize]_vars

IsPunctuation(c) ==
    c \notin LowerLetters \cup UpperLetters \cup DigitChars
                \cup {" ", "TAB", "e_acute", "E_acute", "comb_acute"}

SwapCase(c) ==
    IF IsLowerLetter(c) THEN UpperChar(c)
    ELSE IF IsUpperLetter(c) THEN LowerChar(c)
    ELSE IF c = "e_acute" THEN "E_acute"
    ELSE IF c = "E_acute" THEN "e_acute"
    ELSE c

Unaccent(c) == IF c = "e_acute" THEN "e" ELSE IF c = "E_acute" THEN "E" ELSE c

\* The names that differ from name in the case of one letter, in the accent
\* of one letter, by one punctuation character left out, or by a trailing
\* generational suffix
NameVariants(name) ==
    {[name EXCEPT ![k] = SwapCase(name[k])] : k \in 1..Len(name)}
        \cup {[name EXCEPT ![k] = Unaccent(name[k])] : k \in 1..Len(name)}
        \cup {SubSeq(name, 1, k - 1) \o SubSeq(name, k + 1, Len(name)) :
                 k \in {j \in 1..Len(name) : IsPunctuation(name[j])}}
        \cup {name \o <<" ">> \o suffix : suffix \in Suffixes}
        \cup {name \o <<" ", "J", "r", "'">>}

\* C14: normalizer equivalence.  Two names that differ only in letter case,
\* accenting, punctuation characters or a trailing generational suffix have
\* the same normalized key.
C14_VariantsNormalizeEqual ==
    last_call.op = "_normalize_name"
        => \A other \in NameVariants(last_call.name) :
              _normalize_name(other) = last_call.result

\* C20: the normalizer's output form.  _normalize_name returns for every
\* argument and changes nothing of the tool; it returns "" for an empty or
\* None argument; its result holds only a-z, 0-9 and the space, has no
\* leading, trailing or doubled space, and none of its space-delimited tokens
\* is jr, sr, ii, iii, iv or v.
C20_NormalizeOutputForm ==
    [][last_call'.op = "_normalize_name"
          => LET r == last_call'.result
             IN /\ UNCHANGED <<players, sleeper_players, sleeper_draft_id,
                               drafted_sleeper_ids>>
                /\ last_call.name = NoText => r = NoText
                /\ \A i \in 1..Len(r) :
                      r[i] \in LowerLetters \cup DigitChars \cup {" "}
                /\ r # <<>> => (r[1] # " " /\ r[Len(r)] # " ")
                /\ \A i \in 1..(Len(r) - 1) : ~(r[i] = " " /\ r[i + 1] = " ")
                /\ \A i \in 1..Len(r) : \A j \in i..Len(r) :
                      (/\ i = 1 \/ r[i - 1] = " "
                       /\ j = Len(r) \/ r[j + 1] = " "
                       /\ \A k \in i..j : r[k] # " ")
                         => SubSeq(r, i, j) \notin Suffixes]_vars

\* An accented name followed by a suffix and punctuation was reduced to its
\* base letter
C20_Witness ==
    /\ last_call.op = "_normalize_name"
    /\ last_call.name = <<"E_acute", "TAB", "v", "'">>
    /\ last_call.result = <<"e">>

\* The player_id of each entry of an unmatched-drafted report
ReportIds(unmatched) == {unmatched[k].player_id : k \in 1..Len(unmatched)}

\* C15: the unmatched-drafted report.  get_unmatched_drafted_from_sleeper
\* changes nothing of the tool, and its result lists, once each, exactly the
\* drafted ids that have a registry record whose normalized full_name is not
\* the normalized name of any player flagged drafted.
C15_ReportContents ==
    [][last_call'.op = "get_unmatched_drafted_from_sleeper"
          => /\ UNCHANGED <<players, sleeper_players, sleeper_draft_id,
                            drafted_sleeper_ids>>
             /\ ReportIds(last_call'.unmatched)
                   = {id \in drafted_sleeper_ids :
                         /\ HasRec(sleeper_players, id)
                         /\ \A i \in PlayerIdx :
                               players[i].drafted
                                  => _normalize_name(players[i].name)
                                        # _normalize_name(
                                              RecOf(sleeper_players, id).full_name)}
             /\ Cardinality(ReportIds(last_call'.unmatched))
                   = Len(last_call'.unmatched)]_vars

\* A report that lists one drafted id and leaves out another whose registry
\* name is the name of a drafted player
C15_Witness ==
    /\ last_call.op = "get_unmatched_drafted_from_sleeper"
    /\ last_call.unmatched # <<>>
    /\ \E id \in drafted_sleeper_ids, i \in PlayerIdx :
          /\ HasRec(sleeper_players, id)
          /\ id \notin ReportIds(last_call.unmatched)
          /\ players[i].drafted
          /\ _normalize_name(players[i].name)
                = _normalize_name(RecOf(sleeper_players, id).full_name)

\* C16: the report and resolved ids.  A drafted id that is the sleeper_id of
\* a player flagged drafted is never in the unmatched-drafted report.
C16_ResolvedIdNotReported ==
    last_call.op = "get_unmatched_drafted_from_sleeper"
        => \A i \in PlayerIdx :
              (players[i].drafted /\ players[i].sleeper_id \in drafted_sleeper_ids)
                 => players[i].sleeper_id \notin ReportIds(last_call.unmatched)

\* C17: degenerate inputs.  A resolution pass against an empty registry ends
\* with matched_count 0, no tier taken and every player in the unmatched
\* list, in order; a reconcile with an empty drafted set ends with no player
\* flagged drafted.
C17_EmptyInputs ==
    /\ (last_call.op = "match_players" /\ sleeper_players = <<>>)
          => /\ last_call.matched_count = 0
             /\ \A i \in PlayerIdx : last_call.tier[i] = 0
             /\ last_call.unmatched_players = [i \in PlayerIdx |-> i]
    /\ (last_call.op = "apply_drafted_status" /\ drafted_sleeper_ids = {})
          => \A i \in PlayerIdx : ~players[i].drafted

\* A pass over loaded players ended against an empty registry
C17_Witness ==
    /\ last_call.op = "match_players"
    /\ sleeper_players = <<>>
    /\ players # <<>>
    /\ last_call.matched_count = 0
    /\ Len(last_call.unmatched_players) = Len(players)

\* The normalized keys a registry record supplies: of its full_name, of its
\* search_full_name, and of first_name + " " + last_name when it has both
SuppliedKeys(sp) ==
    {_normalize_name(sp.full_name) : x \in {y \in {1} : Truthy(sp.full_name)}}
        \cup {_normalize_name(sp.search_full_name) :
                 x \in {y \in {1} : Truthy(sp.search_full_name)}}
        \cup {_normalize_name(sp.first_name \o <<" ">> \o sp.last_name) :
                 x \in {y \in {1} : Truthy(sp.first_name) /\ Truthy(sp.last_name)}}

DictKeySet(d) == {d[i][1] : i \in 1..Len(d)}

\* C19: index construction.  In a resolution pass the exact table has one key
\* per raw full_name of the registry and maps it to the id of the last
\* registry record carrying that name; the normalized table has one key per
\* normalized full_name, search_full_name and first-plus-last name supplied
\* by a registry record and maps it to the id of the last record supplying it.
C19_IndexTables ==
    last_call.op = "match_players"
        => LET reg == sleeper_players
               idx == BuildIndex(reg)
               Named(key) == {k \in 1..Len(reg) : reg[k].full_name = key}
               Writers(key) == {k \in 1..Len(reg) : key \in SuppliedKeys(reg[k])}
               Last(S) == CHOOSE k \in S : \A j \in S : j <= k
           IN /\ DictKeySet(idx.sleeper_names)
                    = {reg[k].full_name : k \in {j \in 1..Len(reg) : Truthy(reg[j].full_name)}}
              /\ \A key \in DictKeySet(idx.sleeper_names) :
                    DictGet(idx.sleeper_names, key) = reg[Last(Named(key))].id
              /\ DictKeySet(idx.normalized_map)
                    = UNION {SuppliedKeys(reg[k]) : k \in 1..Len(reg)}
              /\ \A key \in DictKeySet(idx.normalized_map) :
                    DictGet(idx.normalized_map, key) = reg[Last(Writers(key))].id

\* A pass over a registry in which two records carry the same raw full_name:
\* the exact table holds the later record's id
C19_Witness ==
    /\ last_call.op = "match_players"
    /\ \E j, k \in 1..Len(sleeper_players) :
          /\ j < k
          /\ Truthy(sleeper_players[j].full_name)
          /\ sleeper_players[j].full_name = sleeper_players[k].full_name
          /\ DictGet(BuildIndex(sleeper_players).sleeper_names,
                     sleeper_players[j].full_name) = sleeper_players[k].id

\* C18: no error from the core.  In every reachable state, registry records
\* with absent or null fields and drafted ids without a registry record
\* included, match_players, apply_drafted_status and
\* get_unmatched_drafted_from_sleeper would not raise; after a resolution pass
\* every player is matched or in the unmatched list, after a reconcile a
\* player is flagged only through its own drafted id or a drafted id that has
\* a registry record, and a report lists only ids that have a registry
\* record, among them every drafted record without a name.
C18_NoError ==
    /\ ~MatchRaises(players, sleeper_players)
    /\ ~ReconcileRaises(players, sleeper_players, drafted_sleeper_ids)
    /\ ~ReportRaises(players, sleeper_players, drafted_sleeper_ids)
    /\ last_call.op = "match_players"
          => last_call.matched_count + Len(last_call.unmatched_players) = Len(players)
    /\ AfterReconcile
          => \A i \in PlayerIdx :
                players[i].drafted
                   => \/ DirectHit(players[i], drafted_sleeper_ids)
                      \/ \E id \in drafted_sleeper_ids : HasRec(sleeper_players, id)
    /\ last_call.op = "get_unmatched_drafted_from_sleeper"
          => /\ \A id \in ReportIds(last_call.unmatched) : HasRec(sleeper_players, id)
             /\ \A id \in drafted_sleeper_ids :
                   (/\ HasRec(sleeper_players, id)
                    /\ ~Truthy(RecOf(sleeper_players, id).full_name)
                    /\ \A i \in PlayerIdx :
                          players[i].drafted => _normalize_name(players[i].name) # NoText)
                      => id \in ReportIds(last_call.unmatched)

\* A report was computed over a registry record whose name, team and position
\* are null and a drafted id that has no registry record: the record is
\* listed without a name, the id is left out
C18_Witness ==
    /\ last_call.op = "get_unmatched_drafted_from_sleeper"
    /\ players # <<>>
    /\ \E k \in 1..Len(sleeper_players) :
          /\ sleeper_players[k].full_name = Null
          /\ sleeper_players[k].team = Null
          /\ sleeper_players[k].position = Null
          /\ sleeper_players[k].id \in drafted_sleeper_ids
          /\ \E u \in 1..Len(last_call.unmatched) :
                /\ last_call.unmatched[u].player_id = sleeper_players[k].id
                /\ last_call.unmatched[u].full_name = Null
    /\ \E id \in drafted_sleeper_ids :
          /\ ~HasRec(sleeper_players, id)
          /\ id \notin ReportIds(last_call.unmatched)

\* The normalized keys supplied by the registry records of position pos
PositionKeys(reg, pos) ==
    UNION {SuppliedKeys(reg[k]) :
              k \in {j \in 1..Len(reg) : UpperStr(OrEmpty(reg[j].position)) = pos}}

AllKeys(reg) == UNION {SuppliedKeys(reg[k]) : k \in 1..Len(reg)}

\* C21: the fuzzy candidate pool.  After a resolution pass, a record that
\* missed tiers 1 and 2 took tier 3 exactly when a key of its pool scores 88
\* or more, the pool being the keys of the registry records of its position
\* when there are any and the keys of the whole registry otherwise; the id
\* it got belongs to a record supplying a best-scoring key of the pool, and to
\* a record of its position when the position has keys.
C21_FuzzyPool ==
    last_call.op = "match_players"
        => \A i \in PlayerIdx :
              LET p == players[i]
                  reg == sleeper_players
                  norm == _normalize_name(p.name)
                  own == PositionKeys(reg, p.position)
                  pool == IF own # {} THEN own ELSE AllKeys(reg)
              IN last_call.tier[i] \notin {1, 2}
                    => /\ last_call.tier[i] = 3
                             <=> \E key \in pool : token_sort_ratio(norm, key) >= 88
                       /\ last_call.tier[i] = 3
                             => \E key \in pool, k \in 1..Len(reg) :
                                   /\ \A other \in pool :
                                         token_sort_ratio(norm, other)
                                            <= token_sort_ratio(norm, key)
                                   /\ key \in SuppliedKeys(reg[k])
                                   /\ reg[k].id = p.sleeper_id
                                   /\ own # {}
                                         => UpperStr(OrEmpty(reg[k].position)) = p.position

\* A record whose position has keys was refused tier 3 although a key of
\* another position scores 88 or more
C21_Witness ==
    /\ last_call.op = "match_players"
    /\ \E i \in PlayerIdx :
          LET own == PositionKeys(sleeper_players, players[i].position)
          IN /\ own # {}
             /\ \E key \in AllKeys(sleeper_players) \ own :
                   token_sort_ratio(_normalize_name(players[i].name), key) >= 88
             /\ last_call.tier[i] \notin {1, 2, 3}

\* C22: re-apply at the end of a pass.  A resolution pass that runs while the
\* drafted set is non-empty ends with every player whose sleeper_id is in the
\* set flagged drafted, an id assigned in this pass included.
C22_ReapplyOnMatch ==
    [][(last_call'.op = "match_players" /\ drafted_sleeper_ids # {})
          => \A i \in 1..Len(players') :
                players'[i].sleeper_id \in drafted_sleeper_ids
                   => players'[i].drafted]_vars

\* A pass resolved a record to a drafted id and flagged it, and no drafted
\* registry record would have flagged it by name
C22_Witness ==
    /\ last_call.op = "match_players"
    /\ \E i \in PlayerIdx :
          /\ last_call.tier[i] \in 1..4
          /\ players[i].sleeper_id \in drafted_sleeper_ids
          /\ players[i].drafted
          /\ \A id \in drafted_sleeper_ids :
                ~QualifiesByName(sleeper_players, id, players[i])

\* C23: the index is rebuilt on every pass.  After a resolution pass, a
\* record that took tier 1 has the id of a record of the current registry
\* carrying its raw name, one that took tier 2 the id of a current record
\* supplying its normalized name, one that took tier 3 the id of a current
\* record supplying some key; against an empty registry no record takes
\* tiers 1 to 3.
C23_IndexFromCurrentRegistry ==
    last_call.op = "match_players"
        => \A i \in PlayerIdx :
              LET p == players[i]
                  reg == sleeper_players
              IN /\ last_call.tier[i] = 1
                    => \E k \in 1..Len(reg) :
                          reg[k].full_name = p.name /\ reg[k].id = p.sleeper_id
                 /\ last_call.tier[i] = 2
                    => \E k \in 1..Len(reg) :
                          /\ _normalize_name(p.name) \in SuppliedKeys(reg[k])
                          /\ reg[k].id = p.sleeper_id
                 /\ last_call.tier[i] = 3
                    => \E k \in 1..Len(reg) :
                          SuppliedKeys(reg[k]) # {} /\ reg[k].id = p.sleeper_id
                 /\ reg = <<>> => last_call.tier[i] \notin {1, 2, 3}

\* A record resolved under an earlier registry, whose id the current
\* non-empty registry no longer holds, found no match in this pass
C23_Witness ==
    /\ last_call.op = "match_players"
    /\ sleeper_players # <<>>
    /\ \E i \in PlayerIdx :
          /\ players[i].sleeper_id # None
          /\ ~HasRec(sleeper_players, players[i].sleeper_id)
          /\ last_call.tier[i] = 0

\* ---------------------------------------------------------------------------
\* The top-player queries on their own: read-only methods over self.players
\* ---------------------------------------------------------------------------

MaxRanked == 3

\* Ranked players as a load and a reconcile leave them when the drafted
\* registry record "1" is a Ty Jones without a position: two positions, three
\* ranks, the players named Ty Jones flagged drafted, the others not
RankedPool ==
    {[Player(IF d THEN TyJones ELSE TyJonas, KC, pos, rk, 1, 1) EXCEPT !.drafted = d] :
        pos \in {WR, QB}, rk \in 1..3, d \in BOOLEAN}

InitTop ==
    /\ players \in SeqsUpTo(RankedPool, MaxRanked)
    /\ sleeper_players = <<SleeperRec("1", TyJones, NoText, NoText, NoText, NoText)>>
    /\ sleeper_draft_id = <<"d", "1">>
    /\ drafted_sleeper_ids = {"1"}
    /\ env = "ranked"
    /\ last_call = Call("__init__")

\* [i for i in range(len(ps)) if keep(ps[i])], as positions in self.players
RECURSIVE FilterIdx(_, _, _)
FilterIdx(ps, i, keep) ==
    IF i > Len(ps) THEN <<>>
    ELSE (IF i \in keep THEN <<i>> ELSE <<>>) \o FilterIdx(ps, i + 1, keep)

\* Variant of InsertByRank: descending order (reverse=True)
RECURSIVE InsertByRank_descending(_, _, _)
InsertByRank_descending(ps, sorted, i) ==
    IF sorted = <<>> THEN <<i>>
    ELSE IF ps[i].overall_rank > ps[Head(sorted)].overall_rank
         THEN <<i>> \o sorted
         ELSE <<Head(sorted)>> \o InsertByRank_descending(ps, Tail(sorted), i)

\* Insertion of player i behind every player of the same or a smaller
\* overall_rank: sorted() is stable
RECURSIVE InsertByRank(_, _, _)
InsertByRank(ps, sorted, i) ==
    IF sorted = <<>> THEN <<i>>
    ELSE IF ps[i].overall_rank < ps[Head(sorted)].overall_rank
         THEN <<i>> \o sorted
         ELSE <<Head(sorted)>> \o InsertByRank(ps, Tail(sorted), i)

\* sorted(idxs, key=lambda x: x.overall_rank)
RECURSIVE SortedByRank(_, _, _)
SortedByRank(ps, idxs, sorted) ==
    IF idxs = <<>> THEN sorted
    ELSE SortedByRank(ps, Tail(idxs), InsertByRank(ps, sorted, Head(idxs)))

\* s[:limit] for limit >= 0
Slice(s, limit) == SubSeq(s, 1, IF limit < Len(s) THEN limit ELSE Len(s))

get_top_players_by_position(ps, position, limit) ==
    LET position_players ==
            FilterIdx(ps, 1, {i \in 1..Len(ps) :
                                 ps[i].position = position /\ ~ps[i].drafted})
    IN Slice(SortedByRank(ps, position_players, <<>>), limit)

get_top_overall_available(ps, limit) ==
    LET available_players == FilterIdx(ps, 1, {i \in 1..Len(ps) : ~ps[i].drafted})
    IN Slice(SortedByRank(ps, available_players, <<>>), limit)

GetTopPlayersByPosition ==
    /\ last_call.op = "__init__"
    /\ \E position \in {WR, QB}, limit \in 0..MaxRanked :
          last_call' = [op |-> "get_top_players_by_position",
                        position |-> position, limit |-> limit,
                        result |-> get_top_players_by_position(players, position, limit)]
    /\ UNCHANGED <<players, sleeper_players, sleeper_draft_id, drafted_sleeper_ids, env>>

GetTopOverallAvailable ==
    /\ last_call.op = "__init__"
    /\ \E limit \in 0..MaxRanked :
          last_call' = [op |-> "get_top_overall_available", limit |-> limit,
                        result |-> get_top_overall_available(players, limit)]
    /\ UNCHANGED <<players, sleeper_players, sleeper_draft_id, drafted_sleeper_ids, env>>

NextTop == GetTopPlayersByPosition \/ GetTopOverallAvailable

SpecTop == InitTop /\ [][NextTop]_vars

\* The players a query may return: the undrafted ones, of the asked position
\* when the query has one
Qualifying ==
    {i \in PlayerIdx :
        /\ ~players[i].drafted
        /\ last_call.op = "get_top_players_by_position"
              => players[i].position = last_call.position}

\* C24: the top-player queries.  The result of get_top_players_by_position
\* and of get_top_overall_available holds at most limit players, each once,
\* all undrafted (and of the asked position), in ascending overall_rank; it
\* holds limit players or every qualifying one, and no qualifying player left
\* out has a smaller overall_rank than a returned one.
C24_TopPlayers ==
    last_call.op \in {"get_top_players_by_position", "get_top_overall_available"}
        => LET r == last_call.result
               Returned == {r[k] : k \in 1..Len(r)}
           IN /\ Len(r) <= last_call.limit
              /\ Returned \subseteq Qualifying
              /\ Cardinality(Returned) = Len(r)
              /\ \A k, l \in 1..Len(r) :
                    k < l => players[r[k]].overall_rank <= players[r[l]].overall_rank
              /\ Len(r) = last_call.limit \/ Returned = Qualifying
              /\ \A i \in Qualifying \ Returned : \A j \in Returned :
                    players[j].overall_rank <= players[i].overall_rank

\* A query for one player of a position returned the better of two undrafted
\* players that was loaded second, and passed over a drafted player of a
\* still smaller rank
C24_Witness ==
    /\ last_call.op = "get_top_players_by_position"
    /\ last_call.limit = 1
    /\ Len(last_call.result) = 1
    /\ \E i, j, d \in PlayerIdx :
          /\ i < j
          /\ last_call.result[1] = j
          /\ i \in Qualifying
          /\ players[j].overall_rank < players[i].overall_rank
          /\ players[d].drafted
          /\ players[d].position = last_call.position
          /\ players[d].overall_rank < players[j].overall_rank

\* ---------------------------------------------------------------------------
\* The ranking load on its own: one call on a tool as constructed
\* ---------------------------------------------------------------------------

MaxRows == 3

LoadRowPool == {RowTy, RowGabe, RowBadPos, RowBadRk, RowBadTiers, RowNoRk,
                RowShort, RowShortSos}

\* A tool as constructed and the rows of the CSV content about to be loaded
InitLoad ==
    /\ players = <<>>
    /\ sleeper_players = <<>>
    /\ sleeper_draft_id = None
    /\ drafted_sleeper_ids = {}
    /\ env = "rows"
    /\ \E rows \in SeqsUpTo(LoadRowPool, MaxRows) :
          last_call = [op |-> "__init__", rows |-> rows]

LoadFromContent ==
    /\ last_call.op = "__init__"
    /\ players' = LoadRows(players, last_call.rows)
    /\ last_call' = [op |-> IF LoadRaises(last_call.rows)
                            THEN "load_fantasypros_data_from_content_raised"
                            ELSE "load_fantasypros_data_from_content",
                     rows |-> last_call.rows]
    /\ UNCHANGED <<sleeper_players, sleeper_draft_id, drafted_sleeper_ids, env>>

NextLoad == LoadFromContent

SpecLoad == InitLoad /\ [][NextLoad]_vars

\* A row with a text in every required column, a POS that starts with letters
\* followed by digits, and integers in RK and TIERS
WellFormedRow(row) ==
    /\ \A v \in {row.POS, row.SOS, row.name, row.team, row.RK, row.TIERS} :
          v # Missing /\ v # Null
    /\ PosMatch(row.POS) # <<>>
    /\ IsIntText(row.RK)
    /\ IsIntText(row.TIERS)

\* C25: the ranking load.  A load never ends with an exception; it appends
\* one player for each well-formed row, in order, and none for a row whose
\* POS, RK or TIERS does not parse or that lacks a column; every player it
\* appends has no sleeper_id and is not flagged drafted.
C25_LoadSkipsBadRows ==
    last_call.op \in {"load_fantasypros_data_from_content",
                      "load_fantasypros_data_from_content_raised"}
        => LET rows == last_call.rows
               good == FilterIdx(rows, 1, {k \in 1..Len(rows) : WellFormedRow(rows[k])})
           IN /\ last_call.op = "load_fantasypros_data_from_content"
              /\ Len(players) = Len(good)
              /\ \A k \in 1..Len(good) :
                    /\ players[k].name = Strip(rows[good[k]].name)
                    /\ players[k].overall_rank = IntVal(rows[good[k]].RK)
                    /\ players[k].sleeper_id = None
                    /\ ~players[k].drafted

\* C26: an empty drafted set means nobody drafted.  In every reachable
\* state, if drafted_sleeper_ids is empty then no player is flagged drafted.
C26_EmptySetNoDrafted ==
    drafted_sleeper_ids = {} => \A i \in PlayerIdx : ~players[i].drafted

\* A pick refresh that found no picks ended with an empty set over players
\* that hold sleeper ids
C26_Witness ==
    /\ last_call.op = "fetch_sleeper_draft_picks"
    /\ last_call.picks = <<>>
    /\ drafted_sleeper_ids = {}
    /\ \E i \in PlayerIdx : players[i].sleeper_id # None

\* C27: a pick refresh that cannot complete.  fetch_sleeper_draft_picks
\* without a configured draft id, or with a failing request, leaves the
\* drafted set, the players (flags and ids), the registry and the draft id as
\* they were; a refresh completes only with a draft id configured.
C27_FailedRefreshFrame ==
    [][/\ last_call'.op \in {"fetch_sleeper_draft_picks_no_id",
                             "fetch_sleeper_draft_picks_failed"}
             => UNCHANGED <<players, sleeper_players, sleeper_draft_id,
                            drafted_sleeper_ids>>
       /\ last_call'.op = "fetch_sleeper_draft_picks_no_id" => sleeper_draft_id = None
       /\ last_call'.op = "fetch_sleeper_draft_picks" => sleeper_draft_id # None]_vars

\* A request failed while picks of an earlier refresh were stored and a
\* player was flagged
C27_Witness ==
    /\ last_call.op = "fetch_sleeper_draft_picks_failed"
    /\ drafted_sleeper_ids # {}
    /\ \E i \in PlayerIdx : players[i].drafted

\* C28: set_sleeper_draft_id.  The call changes only the draft id: it becomes
\* the stripped argument, or None when the argument is empty or whitespace;
\* the drafted set, the players and the registry stay as they were, and the
\* drafted set changes only in a completed pick refresh.
C28_SetDraftIdFrame ==
    [][/\ last_call'.op = "set_sleeper_draft_id"
             => /\ UNCHANGED <<players, sleeper_players, drafted_sleeper_ids>>
                /\ (\A k \in 1..Len(last_call'.draft_id) :
                       last_call'.draft_id[k] \in {" ", "TAB"})
                      => sleeper_draft_id' = None
                /\ (\E k \in 1..Len(last_call'.draft_id) :
                       last_call'.draft_id[k] \notin {" ", "TAB"})
                      => /\ sleeper_draft_id' # None
                         /\ sleeper_draft_id' = Strip(last_call'.draft_id)
       /\ drafted_sleeper_ids' # drafted_sleeper_ids
             => last_call'.op = "fetch_sleeper_draft_picks"]_vars

\* A whitespace-only argument cleared the draft id while picks were stored
\* and a player was flagged
C28_Witness ==
    /\ last_call.op = "set_sleeper_draft_id"
    /\ last_call.draft_id = <<" ">>
    /\ sleeper_draft_id = None
    /\ drafted_sleeper_ids # {}
    /\ \E i \in PlayerIdx : players[i].drafted

\* C29: a pass partitions the players.  After a resolution pass every player
\* either took one of the tiers 1 to 4 or is in the unmatched list, never
\* both; the unmatched list names no player twice; matched_count is the
\* number of players that took a tier, and matched_count plus the length of
\* the unmatched list is the number of players.
C29_MatchPartition ==
    last_call.op = "match_players"
        => LET um == last_call.unmatched_players
               Unmatched == {um[u] : u \in 1..Len(um)}
               Matched == {i \in PlayerIdx : last_call.tier[i] \in 1..4}
           IN /\ Unmatched \cup Matched = PlayerIdx
              /\ Unmatched \cap Matched = {}
              /\ Cardinality(Unmatched) = Len(um)
              /\ last_call.matched_count = Cardinality(Matched)
              /\ last_call.matched_count + Len(um) = Len(players)

\* A pass matched one player by tier 4 and left another unmatched
C29_Witness ==
    /\ last_call.op = "match_players"
    /\ last_call.matched_count = 1
    /\ Len(last_call.unmatched_players) = 1
    /\ \E i \in PlayerIdx : last_call.tier[i] = 4

\* C30: a failed registry fetch.  fetch_sleeper_data with a failing request
\* leaves an empty registry and changes neither the players nor the drafted
\* set nor the draft id; a reconcile over an empty registry flags exactly the
\* players whose sleeper_id is in the drafted set.
C30_FailedFetch ==
    [][/\ last_call'.op = "fetch_sleeper_data_failed"
             => /\ sleeper_players' = <<>>
                /\ UNCHANGED <<players, sleeper_draft_id, drafted_sleeper_ids>>
       /\ (last_call'.op = "apply_drafted_status" /\ sleeper_players' = <<>>)
             => \A i \in 1..Len(players') :
                   players'[i].drafted
                      <=> (/\ players'[i].sleeper_id # None
                           /\ players'[i].sleeper_id \in drafted_sleeper_ids')]_vars

\* A reconcile over the empty registry a failed fetch left flagged a player
\* by its id and left another, without a drafted id, unflagged
C30_Witness ==
    /\ last_call.op = "apply_drafted_status"
    /\ sleeper_players = <<>>
    /\ \E i, j \in PlayerIdx :
          /\ players[i].sleeper_id \in drafted_sleeper_ids
          /\ players[i].drafted
          /\ players[j].sleeper_id \notin drafted_sleeper_ids
          /\ ~players[j].drafted

====
